---- MODULE Spec2Model ----
(***************************************************************************)
(* Nexus Ray workflow core: the dependency graph (src/core/dag.py), the    *)
(* executor harness (src/core/executor.py) and the orchestrator            *)
(* (src/core/orchestrator.py) with its variant that publishes events and    *)
(* persists state (src/core/orchestrator_enhanced.py), as a state machine.  *)
(***************************************************************************)
EXTENDS Integers, Sequences, FiniteSets, TLC

\* ------------------------------------------------------------------ universe
\* Task ids a definition may use.
Tasks == {"A", "B", "C", "D"}

\* The task ids of the definitions and graphs that are enumerated exhaustively.
SmallTasks == {"A", "B", "C"}

\* A dictionary key that is not present.
Absent == "absent"

\* ------------------------------------------------------------ WorkflowDAG
\* A WorkflowDAG object: tasks is the key set of _tasks (and the node set of
\* graph), depends[t] the depends_on list of the TaskDefinition stored under t,
\* edges the edge set of graph.
EmptyDag ==
    [tasks |-> {}, depends |-> [t \in Tasks |-> {}], edges |-> {}]

\* Nodes of `rem` with no incoming edge from a node of `rem` (in-degree zero
\* once the earlier generations are removed).
ZeroInDegree(rem, edges) ==
    {v \in rem : ~\E u \in rem : <<u, v>> \in edges}

\* What is left of `rem` after peeling zero in-degree nodes until none is left.
RECURSIVE Peel(_, _)
Peel(rem, edges) ==
    LET z == ZeroInDegree(rem, edges)
    IN  IF z = {} THEN rem ELSE Peel(rem \ z, edges)

\* nx.is_directed_acyclic_graph
is_directed_acyclic_graph(nodes, edges) ==
    Peel(nodes, edges) = {}

\* nx.topological_generations: the generations, each a set of node ids.
RECURSIVE topological_generations(_, _)
topological_generations(rem, edges) ==
    LET z == ZeroInDegree(rem, edges)
    IN  IF z = {} THEN << >>
        ELSE <<z>> \o topological_generations(rem \ z, edges)

\* add_task that replaces the task stored under the id before it raises.
add_task_replacing(d, t, deps) ==
    IF t \in d.tasks
    THEN [dag |-> [d EXCEPT !.depends[t] = deps], err |-> "ValueError"]
    ELSE [dag |-> [d EXCEPT !.tasks = @ \cup {t}, !.depends[t] = deps],
          err |-> "none"]

\* WorkflowDAG.add_task
add_task(d, t, deps) ==
    IF t \in d.tasks
    THEN [dag |-> d, err |-> "ValueError"]
    ELSE [dag |-> [d EXCEPT !.tasks = @ \cup {t}, !.depends[t] = deps],
          err |-> "none"]

\* add_dependency without the rollback of the edge.
add_dependency_keep_edge(d, from, to) ==
    IF from \notin d.tasks \/ to \notin d.tasks
    THEN [dag |-> d, err |-> "TaskNotFoundError"]
    ELSE LET added == [d EXCEPT !.edges = @ \cup {<<from, to>>}]
         IN  IF ~is_directed_acyclic_graph(added.tasks, added.edges)
             THEN [dag |-> added, err |-> "CyclicDependencyError"]
             ELSE [dag |-> added, err |-> "none"]

\* WorkflowDAG.add_dependency
add_dependency(d, from, to) ==
    IF from \notin d.tasks \/ to \notin d.tasks
    THEN [dag |-> d, err |-> "TaskNotFoundError"]
    ELSE LET added == [d EXCEPT !.edges = @ \cup {<<from, to>>}]
         IN  IF ~is_directed_acyclic_graph(added.tasks, added.edges)
             THEN [dag |-> [added EXCEPT !.edges = @ \ {<<from, to>>}],
                   err |-> "CyclicDependencyError"]
             ELSE [dag |-> added, err |-> "none"]

\* validate without the check that every declared dependency exists.
validate_without_dependency_check(d) ==
    IF d.tasks = {} THEN "WorkflowDAGError"
    ELSE IF ~is_directed_acyclic_graph(d.tasks, d.edges)
         THEN "CyclicDependencyError"
    ELSE "none"

\* WorkflowDAG.validate: the exception it raises, "none" when it returns True.
validate(d) ==
    IF d.tasks = {} THEN "WorkflowDAGError"
    ELSE IF ~is_directed_acyclic_graph(d.tasks, d.edges)
         THEN "CyclicDependencyError"
    ELSE IF \E t \in d.tasks : ~(d.depends[t] \subseteq d.tasks)
         THEN "TaskNotFoundError"
    ELSE "none"

\* get_execution_order that puts every task in one batch.
get_execution_order_one_batch(d) ==
    IF d.tasks = {} THEN << >> ELSE <<d.tasks>>

\* WorkflowDAG.get_execution_order
get_execution_order(d) ==
    topological_generations(d.tasks, d.edges)

\* graph.predecessors(t)
predecessors(d, t) == {u \in d.tasks : <<u, t>> \in d.edges}

\* get_ready_tasks that asks for one completed dependency instead of all.
get_ready_tasks_any_dependency(d, completed_tasks) ==
    {t \in d.tasks \ completed_tasks :
        \/ predecessors(d, t) = {}
        \/ \E dep \in predecessors(d, t) : dep \in completed_tasks}

\* WorkflowDAG.get_ready_tasks
get_ready_tasks(d, completed_tasks) ==
    {t \in d.tasks \ completed_tasks :
        \A dep \in predecessors(d, t) : dep \in completed_tasks}

\* graph.in_degree(t)
in_degree(d, t) == Cardinality({e \in d.edges : e[2] = t})

\* WorkflowDAG.get_root_tasks
get_root_tasks(d) == {t \in d.tasks : in_degree(d, t) = 0}

\* ------------------------------------------------------- data model values
\* Keys of an inputs dictionary: one ordinary key, and "<task_id>_output" for
\* every task id.
OutputKey(t) == t \o "_output"

Keys == {"k"} \cup {OutputKey(t) : t \in Tasks}

\* An inputs dictionary with no key.
NoInputs == [k \in Keys |-> Absent]

\* {**a, **b}: b's entries override a's.
Merge(a, b) ==
    [k \in Keys |-> IF b[k] # Absent THEN b[k] ELSE a[k]]

\* TaskResult(task_id, status=PENDING): the defaults of the other fields.
PendingResult ==
    [status |-> "PENDING", outputs |-> "{}", error |-> "none", retry_count |-> 0]

\* WorkflowState.__init__ followed by the PENDING TaskResult of every task.
NewWorkflowState(tasks) ==
    [status |-> "running",
     task_results |-> [t \in tasks |-> PendingResult],
     completed_tasks |-> {},
     running_tasks |-> {},
     failed_tasks |-> {},
     completed_at |-> FALSE]

\* ------------------------------------------------------------------ bounds
\* Largest max_retries a task of a definition is given.
MaxRetries == 1

\* Number of execute_workflow calls made on one orchestrator.
MaxRuns == 2

\* Number of execute() calls on one task after which the executor no longer
\* returns a status outside SUCCESS, FAILED and WAITING_HUMAN.
MaxCalls == 3

\* ------------------------------------------------------------------- state
VARIABLES
    dag,              \* SpecDag: the WorkflowDAG object under test
    call,             \* SpecDag: the last call made on dag and how it ended
    wfdef,            \* the compiled WorkflowDefinition handed to execute_workflow
    task_inputs,      \* TaskDefinition.inputs of every task of wfdef (mutable)
    dags,             \* WorkflowOrchestrator.dags (<< >>: no entry)
    workflows,        \* WorkflowOrchestrator.workflows (<< >>: no entry)
    pc,               \* execute_workflow: idle, running, returned, raised
    workflow_inputs,  \* execute_workflow's inputs argument
    execution_order,  \* _execute_dag: the batches
    batch_idx,        \* _execute_dag: index of the batch being gathered
    tpc,              \* _execute_task of each task: idle, ready, exec, sleep, hooks, done, raised
    retry_count,      \* _execute_task: retry_count
    attempt,          \* run_with_metrics: attempt
    calls,            \* number of executor.execute() invocations per task, this call
    runs,             \* number of execute_workflow calls made so far
    enhanced,         \* the orchestrator is an EnhancedOrchestrator
    _kafka_enabled,   \* EnhancedOrchestrator._kafka_enabled
    _persistence_enabled,  \* EnhancedOrchestrator._persistence_enabled
    hook_errors,      \* the hooks (publish, persist_state, save_task_execution)
                      \* that have raised an exception so far
    persisted,        \* StateManager: the workflow_states row of the workflow
                      \* (<< >>: no row)
    hitl_store,       \* src/api/routes/hitl.py: hitl_store, request id -> request
    agents,           \* AgentRegistry.agents, agent id -> AgentInfo
    out_of_service    \* the agents update_status has set OFFLINE or ERROR and
                      \* has not set AVAILABLE since (history)

vars ==
    <<dag, call, wfdef, task_inputs, dags, workflows, pc, workflow_inputs,
      execution_order, batch_idx, tpc, retry_count, attempt, calls, runs,
      enhanced, _kafka_enabled, _persistence_enabled, hook_errors, persisted,
      hitl_store, agents, out_of_service>>

dagVars == <<dag, call>>

\* The HITL request store and the agent registry, which neither the
\* orchestrators nor the WorkflowDAG touch.
serviceVars == <<hitl_store, agents, out_of_service>>

\* What the constructor of the orchestrator fixes.
hookConfig == <<enhanced, _kafka_enabled, _persistence_enabled>>

orchVars ==
    <<wfdef, task_inputs, dags, workflows, pc, workflow_inputs,
      execution_order, batch_idx, tpc, retry_count, attempt, calls, runs,
      hookConfig, hook_errors, persisted>>

\* The WorkflowState registered under the workflow id.
State == workflows[1]

\* ------------------------------------------------------- WorkflowDefinition
\* WorkflowOrchestrator._build_dag, first loop: add_task for every task.
RECURSIVE AddAllTasks(_, _, _)
AddAllTasks(d, todo, def) ==
    IF todo = {} THEN [dag |-> d, err |-> "none"]
    ELSE LET t == CHOOSE x \in todo : TRUE
             r == add_task(d, t, def.depends_on[t])
         IN  IF r.err # "none" THEN r
             ELSE AddAllTasks(r.dag, todo \ {t}, def)

\* WorkflowOrchestrator._build_dag, second loop: add_dependency(dep, task_id)
\* for every dependency; the first exception ends it.
RECURSIVE AddAllDependencies(_, _)
AddAllDependencies(d, todo) ==
    IF todo = {} THEN [dag |-> d, err |-> "none"]
    ELSE LET e == CHOOSE x \in todo : TRUE
             r == add_dependency(d, e[1], e[2])
         IN  IF r.err # "none" THEN r
             ELSE AddAllDependencies(r.dag, todo \ {e})

\* WorkflowOrchestrator._build_dag
_build_dag(def) ==
    LET added == AddAllTasks(EmptyDag, def.tasks, def)
    IN  IF added.err # "none" THEN added
        ELSE AddAllDependencies(added.dag,
                 {e \in Tasks \X Tasks :
                     e[2] \in def.tasks /\ e[1] \in def.depends_on[e[2]]})

\* ------------------------------------------------------------ orchestrator
\* _resolve_task_inputs that adds no dependency output.
_resolve_task_inputs_without_outputs(t, s, base_inputs) == base_inputs

\* WorkflowOrchestrator._resolve_task_inputs
_resolve_task_inputs(t, s, base_inputs) ==
    [k \in Keys |->
        IF \E dep \in wfdef.depends_on[t] :
               /\ k = OutputKey(dep)
               /\ dep \in DOMAIN s.task_results
               /\ s.task_results[dep].status = "SUCCESS"
        THEN LET dep == CHOOSE d \in wfdef.depends_on[t] : k = OutputKey(d)
             IN  s.task_results[dep].outputs
        ELSE base_inputs[k]]

\* state.task_results[task_id] = result
SaveResult(s, t, result) ==
    [s EXCEPT !.task_results[t] = result]

\* The task is put in failed_tasks instead of completed_tasks.
MarkCompleted_as_failed(s, t) ==
    [s EXCEPT !.failed_tasks = @ \cup {t}, !.running_tasks = @ \ {t}]

\* state.completed_tasks.add(task_id); state.running_tasks.discard(task_id)
MarkCompleted(s, t) ==
    [s EXCEPT !.completed_tasks = @ \cup {t}, !.running_tasks = @ \ {t}]

\* state.failed_tasks.add(task_id); state.running_tasks.discard(task_id)
MarkFailed(s, t) ==
    [s EXCEPT !.failed_tasks = @ \cup {t}, !.running_tasks = @ \ {t}]

\* A FAILED TaskResult that carries outputs.
FailedResult_with_outputs(error, rc) ==
    [status |-> "FAILED", outputs |-> "out", error |-> error, retry_count |-> rc]

\* The TaskResult the except clauses of _execute_task build.
FailedResult(error, rc) ==
    [status |-> "FAILED", outputs |-> "{}", error |-> error, retry_count |-> rc]

\* The except Exception clause of _execute_task without failed_tasks.add.
OnException_not_failed(s, t, rc) ==
    [SaveResult(s, t, FailedResult("exception", rc)) EXCEPT !.running_tasks = @ \ {t}]

\* The except Exception clause of _execute_task.
OnException(s, t, rc) ==
    MarkFailed(SaveResult(s, t, FailedResult("exception", rc)), t)

\* The except asyncio.TimeoutError clause of _execute_task.
OnTimeout(s, t, rc) ==
    MarkFailed(SaveResult(s, t, FailedResult("timeout", rc)), t)

\* EnhancedOrchestrator._publish_event: the hook it calls, none when Kafka is
\* not enabled (and in WorkflowOrchestrator, which publishes nothing).
PublishHook == IF enhanced /\ _kafka_enabled THEN {"publish"} ELSE {}

\* EnhancedOrchestrator._persist_state: the hook it calls, none when
\* persistence is not enabled.
PersistHook == IF enhanced /\ _persistence_enabled THEN {"persist_state"} ELSE {}

\* _publish_event and _persist_state call the hooks of `called`; each may raise,
\* and the except clause of the wrapper logs the exception and returns.
CallHooks(called) ==
    \E raised \in SUBSET called : hook_errors' = hook_errors \cup raised

\* A snapshot that leaves failed_tasks out.
Snapshot_without_failed_tasks(s) ==
    [status |-> s.status, task_results |-> s.task_results,
     completed_tasks |-> s.completed_tasks, failed_tasks |-> {},
     completed_at |-> s.completed_at]

\* The fields of the WorkflowState that _persist_state hands to
\* state_manager.save_workflow_state.
Snapshot(s) ==
    [status |-> s.status, task_results |-> s.task_results,
     completed_tasks |-> s.completed_tasks, failed_tasks |-> s.failed_tasks,
     completed_at |-> s.completed_at]

\* _persist_state(state): the row the StateManager holds after the call, given
\* the row `stored` it held before and the hooks that raised.
\* save_workflow_state creates or updates the one row of the workflow id, and
\* rolls back when the database raises.
_persist_state(stored, s, raised) ==
    IF PersistHook = {} \/ "persist_state" \in raised
    THEN stored
    ELSE <<Snapshot(s)>>

\* The hooks of `called` are called, then _persist_state(s).
CallHooksAndPersist(called, s) ==
    \E raised \in SUBSET (called \cup PersistHook) :
        /\ hook_errors' = hook_errors \cup raised
        /\ persisted' = _persist_state(persisted, s, raised)

\* Where _execute_task is once the task's result and sets are written: in
\* EnhancedOrchestrator the hooks of the branch are still to be called, in
\* WorkflowOrchestrator it returns.
Ended == IF enhanced THEN "hooks" ELSE "done"

\* One pass of the while loop of _execute_task up to its await: the loop test,
\* the resolution of the inputs and their write-back into the task, the
\* executor lookup, and the first execute() call of run_with_metrics.  `s` is
\* the WorkflowState and `rc` the value of retry_count on entry.
LoopPass(t, s, rc) ==
    /\ retry_count' = [retry_count EXCEPT ![t] = rc]
    /\ IF rc > wfdef.max_retries[t]
       THEN \* the loop ends: RuntimeError("... execution logic error")
            /\ tpc' = [tpc EXCEPT ![t] = "raised"]
            /\ workflows' = <<s>>
            /\ UNCHANGED <<task_inputs, attempt, calls>>
       ELSE /\ task_inputs' =
                  [task_inputs EXCEPT ![t] =
                      _resolve_task_inputs(t, s,
                          Merge(workflow_inputs, task_inputs[t]))]
            /\ IF wfdef.task_type[t] = "agent"
               THEN \* _get_executor raises NotImplementedError
                    /\ workflows' = <<OnException(s, t, rc)>>
                    /\ tpc' = [tpc EXCEPT ![t] = Ended]
                    /\ UNCHANGED <<attempt, calls>>
               ELSE /\ workflows' = <<s>>
                    /\ tpc' = [tpc EXCEPT ![t] = "exec"]
                    /\ attempt' = [attempt EXCEPT ![t] = 0]
                    /\ calls' = [calls EXCEPT ![t] = @ + 1]

\* What _execute_task does with the TaskResult run_with_metrics returned:
\* SUCCESS and WAITING_HUMAN complete the task, FAILED is retried after a
\* backoff or ends the task, and any other status falls through to the next
\* pass of the while loop.
OnResult(t, result) ==
    LET rc == retry_count[t]
        r == [result EXCEPT !.retry_count = rc]
        s == SaveResult(State, t, r)
    IN  IF r.status \in {"SUCCESS", "WAITING_HUMAN"}
        THEN /\ workflows' = <<MarkCompleted(s, t)>>
             /\ tpc' = [tpc EXCEPT ![t] = Ended]
             /\ UNCHANGED <<retry_count, task_inputs, attempt, calls>>
        ELSE IF r.status = "FAILED" /\ rc < wfdef.max_retries[t]
        THEN /\ workflows' = <<s>>
             /\ retry_count' = [retry_count EXCEPT ![t] = rc + 1]
             /\ tpc' = [tpc EXCEPT ![t] = "sleep"]
             /\ UNCHANGED <<task_inputs, attempt, calls>>
        ELSE IF r.status = "FAILED"
        THEN /\ workflows' = <<MarkFailed(s, t)>>
             /\ tpc' = [tpc EXCEPT ![t] = Ended]
             /\ UNCHANGED <<retry_count, task_inputs, attempt, calls>>
        ELSE LoopPass(t, s, rc)

\* Values of the locals of the task coroutines before a call starts them.
IdleLocals ==
    /\ tpc = [t \in Tasks |-> "idle"]
    /\ retry_count = [t \in Tasks |-> 0]
    /\ attempt = [t \in Tasks |-> 0]
    /\ calls = [t \in Tasks |-> 0]

\* Workflow-level inputs a caller passes: none, or a value for the key "k".
WorkflowInputs ==
    {[NoInputs EXCEPT !["k"] = v] : v \in {Absent, "w"}}

\* TaskResults an executor's execute() returns.
ExecuteResults ==
    {[status |-> "SUCCESS", outputs |-> o] : o \in {"{}", "out"}}
    \cup {[status |-> "FAILED", outputs |-> "{}"]}
    \cup {[status |-> "WAITING_HUMAN", outputs |-> "approval_required"]}

\* TaskResults with one of the other values of TaskStatus, which the Executor
\* contract lets execute() return.
OtherResults ==
    {[status |-> st, outputs |-> "{}"] : st \in {"CANCELLED", "PENDING", "RUNNING"}}

\* execute_workflow, up to the gather of the first batch or to the exception
\* that ends it (EnhancedOrchestrator: the workflow-started event is published
\* and the initial state persisted on the way).
ExecuteWorkflow(inputs) ==
    /\ pc \in {"idle", "returned", "raised"}
    /\ runs' = runs + 1
    /\ LET built == _build_dag(wfdef)
       IN  IF built.err # "none"
           THEN /\ pc' = "raised"
                /\ UNCHANGED <<dags, workflows, workflow_inputs, execution_order,
                               batch_idx, tpc, retry_count, attempt, calls,
                               hook_errors, persisted>>
           ELSE IF validate(built.dag) # "none"
           THEN /\ dags' = <<built.dag>>
                /\ pc' = "raised"
                /\ UNCHANGED <<workflows, workflow_inputs, execution_order,
                               batch_idx, tpc, retry_count, attempt, calls,
                               hook_errors, persisted>>
           ELSE /\ dags' = <<built.dag>>
                /\ workflows' = <<NewWorkflowState(wfdef.tasks)>>
                /\ workflow_inputs' = inputs
                /\ execution_order' = get_execution_order(built.dag)
                /\ batch_idx' = 1
                /\ tpc' = [t \in Tasks |->
                              IF t \in wfdef.tasks THEN "ready" ELSE "idle"]
                /\ retry_count' = [t \in Tasks |-> 0]
                /\ attempt' = [t \in Tasks |-> 0]
                /\ calls' = [t \in Tasks |-> 0]
                /\ CallHooksAndPersist(PublishHook, NewWorkflowState(wfdef.tasks))
                /\ pc' = "running"
    /\ UNCHANGED <<wfdef, task_inputs, dagVars, serviceVars, hookConfig>>

\* _execute_task starts for a task of the batch being gathered
\* (EnhancedOrchestrator: the task-started event is published first).
StartTask(t) ==
    /\ pc = "running"
    /\ t \in execution_order[batch_idx]
    /\ tpc[t] = "ready"
    /\ CallHooks(PublishHook)
    /\ LoopPass(t, [State EXCEPT !.running_tasks = @ \cup {t}], 0)
    /\ UNCHANGED <<wfdef, dags, pc, workflow_inputs, execution_order, batch_idx,
                   runs, dagVars, serviceVars, hookConfig, persisted>>

\* run_with_metrics: what it returns when execute() returned `res`.  attempt > 0
\* means earlier attempts raised, and result.error still holds their message.
MergedResult(t, res) ==
    [status |-> IF res.status = "RUNNING" THEN "SUCCESS" ELSE res.status,
     outputs |-> res.outputs,
     error |-> IF attempt[t] > 0 THEN "exception" ELSE "none",
     retry_count |-> attempt[t]]

\* execute() returns a TaskResult: run_with_metrics leaves its loop and
\* _execute_task handles the result.
ExecuteReturns(t, res) ==
    /\ pc = "running"
    /\ tpc[t] = "exec"
    /\ OnResult(t, MergedResult(t, res))
    /\ UNCHANGED <<wfdef, dags, pc, workflow_inputs, execution_order, batch_idx,
                   runs, dagVars, serviceVars, hookConfig, hook_errors, persisted>>

\* execute() returns a TaskResult of any status.
ExecuteReturnsAny(t, res) ==
    /\ res \in OtherResults => calls[t] < MaxCalls
    /\ ExecuteReturns(t, res)

\* run_with_metrics: an exception of execute() sends its loop to the next
\* attempt while attempt < max_retries.
RaiseRetries(t) == attempt[t] < wfdef.max_retries[t]

\* execute() raises: run_with_metrics calls it again while it has attempts
\* left, and otherwise returns a FAILED result to _execute_task.
ExecuteRaises(t) ==
    /\ pc = "running"
    /\ tpc[t] = "exec"
    /\ IF RaiseRetries(t)
       THEN /\ attempt' = [attempt EXCEPT ![t] = @ + 1]
            /\ calls' = [calls EXCEPT ![t] = @ + 1]
            /\ UNCHANGED <<workflows, tpc, retry_count, task_inputs>>
       ELSE OnResult(t, [status |-> "FAILED", outputs |-> "{}",
                         error |-> "exception", retry_count |-> attempt[t]])
    /\ UNCHANGED <<wfdef, dags, pc, workflow_inputs, execution_order, batch_idx,
                   runs, dagVars, serviceVars, hookConfig, hook_errors, persisted>>

\* The deadline of asyncio.wait_for(executor.run_with_metrics(task), timeout)
\* expires while execute() is still running.  The deadline run_with_metrics
\* sets for execute() is the same duration started later, so the outer one
\* expires first and cancels the inner call.
TimeoutExpires(t) ==
    /\ pc = "running"
    /\ tpc[t] = "exec"
    /\ wfdef.timeout_seconds[t] # 0
    /\ workflows' = <<OnTimeout(State, t, retry_count[t])>>
    /\ tpc' = [tpc EXCEPT ![t] = Ended]
    /\ UNCHANGED <<wfdef, task_inputs, dags, pc, workflow_inputs, execution_order,
                   batch_idx, retry_count, attempt, calls, runs, dagVars, serviceVars,
                   hookConfig, hook_errors, persisted>>

\* asyncio.sleep(2 ** retry_count) ends: the next pass of the while loop.
BackoffEnds(t) ==
    /\ pc = "running"
    /\ tpc[t] = "sleep"
    /\ LoopPass(t, State, retry_count[t])
    /\ UNCHANGED <<wfdef, dags, pc, workflow_inputs, execution_order, batch_idx,
                   runs, dagVars, serviceVars, hookConfig, hook_errors, persisted>>

\* EnhancedOrchestrator._execute_task after the result and the sets are
\* written: every branch publishes its event, and the SUCCESS branch then calls
\* state_manager.save_task_execution when persistence is enabled.  That call is
\* inside the try block of the loop, and StateManager re-raises what the
\* database raised: the except Exception clause then handles it.
TaskHooks(t) ==
    /\ pc = "running"
    /\ tpc[t] = "hooks"
    /\ LET save == IF State.task_results[t].status = "SUCCESS" /\ _persistence_enabled
                   THEN {"save_task_execution"} ELSE {}
       IN  \E raised \in SUBSET (PublishHook \cup save) :
              /\ hook_errors' = hook_errors \cup raised
              /\ workflows' = IF "save_task_execution" \in raised
                              THEN <<OnException(State, t, retry_count[t])>>
                              ELSE workflows
    /\ tpc' = [tpc EXCEPT ![t] = "done"]
    /\ UNCHANGED <<wfdef, task_inputs, dags, pc, workflow_inputs, execution_order,
                   batch_idx, retry_count, attempt, calls, runs, dagVars, serviceVars,
                   hookConfig, persisted>>

\* The loop over zip(batch, results) after asyncio.gather: a coroutine that
\* ended with an exception puts its task in failed_tasks.
AfterGather(s) ==
    [s EXCEPT !.failed_tasks =
        @ \cup {t \in execution_order[batch_idx] : tpc[t] = "raised"}]

\* The batch is started before the previous one is gathered.
BatchDone_no_barrier == TRUE

\* asyncio.gather returns once every coroutine of the batch has ended.
BatchDone ==
    \A t \in execution_order[batch_idx] : tpc[t] \in {"done", "raised"}

\* asyncio.gather of a batch returns; EnhancedOrchestrator persists the state;
\* _execute_dag goes on to the next batch.
NextBatch ==
    /\ pc = "running"
    /\ BatchDone
    /\ batch_idx < Len(execution_order)
    /\ workflows' = <<AfterGather(State)>>
    /\ batch_idx' = batch_idx + 1
    /\ CallHooksAndPersist({}, AfterGather(State))
    /\ UNCHANGED <<wfdef, task_inputs, dags, pc, workflow_inputs, execution_order,
                   tpc, retry_count, attempt, calls, runs, dagVars, serviceVars, hookConfig>>

\* A final status that ignores failed_tasks.
FinalStatus_always_completed(s) == "completed"

\* The status execute_workflow sets when _execute_dag has returned.
FinalStatus(s) ==
    IF s.failed_tasks = {} THEN "completed" ELSE "failed"

\* execute_workflow also returns after a batch in which a task is left
\* WAITING_HUMAN, without running the batches after it.
Return_at_human_gate ==
    /\ pc = "running"
    /\ BatchDone
    /\ \/ batch_idx = Len(execution_order)
       \/ \E t \in execution_order[batch_idx] :
             State.task_results[t].status = "WAITING_HUMAN"
    /\ LET s == AfterGather(State)
           final == [s EXCEPT !.status = FinalStatus(s), !.completed_at = TRUE]
       IN  /\ workflows' = <<final>>
           /\ \E batch \in SUBSET PersistHook,
                 raised \in SUBSET (PublishHook \cup PersistHook) :
                 /\ hook_errors' = hook_errors \cup batch \cup raised
                 /\ persisted' =
                        _persist_state(_persist_state(persisted, s, batch),
                                       final, raised)
    /\ pc' = "returned"
    /\ UNCHANGED <<wfdef, task_inputs, dags, workflow_inputs, execution_order,
                   batch_idx, tpc, retry_count, attempt, calls, runs, dagVars, serviceVars,
                   hookConfig>>

\* asyncio.gather of the last batch returns: _execute_dag returns and
\* execute_workflow sets the final status and returns the state
\* (EnhancedOrchestrator: after persisting the state of the batch, publishing
\* the completion event and persisting the final state).
Return ==
    /\ pc = "running"
    /\ BatchDone
    /\ batch_idx = Len(execution_order)
    /\ LET s == AfterGather(State)
           final == [s EXCEPT !.status = FinalStatus(s), !.completed_at = TRUE]
       IN  /\ workflows' = <<final>>
           /\ \E batch \in SUBSET PersistHook,
                 raised \in SUBSET (PublishHook \cup PersistHook) :
                 /\ hook_errors' = hook_errors \cup batch \cup raised
                 /\ persisted' =
                        _persist_state(_persist_state(persisted, s, batch),
                                       final, raised)
    /\ pc' = "returned"
    /\ UNCHANGED <<wfdef, task_inputs, dags, workflow_inputs, execution_order,
                   batch_idx, tpc, retry_count, attempt, calls, runs, dagVars, serviceVars,
                   hookConfig>>

\* ------------------------------------------------------------- definitions
\* timeout_seconds of a task that has a timeout (0 stands for None).
TimeoutSeconds == 30

\* A WorkflowDefinition: the task list and, per task id, the fields of its
\* TaskDefinition that the orchestrator reads.
Definition(tasks, depends_on, max_retries, timeout_seconds, task_type, inputs) ==
    [tasks |-> tasks, depends_on |-> depends_on, max_retries |-> max_retries,
     timeout_seconds |-> timeout_seconds, task_type |-> task_type,
     inputs |-> inputs]

\* A definition in which every task is a TOOL task with no retries, no timeout
\* and no inputs of its own.
PlainDefinition(tasks, depends_on) ==
    Definition(tasks, depends_on, [t \in Tasks |-> 0], [t \in Tasks |-> 0],
               [t \in Tasks |-> "tool"], [t \in Tasks |-> NoInputs])

\* Task lists with the depends_on of every listed task (any ids, listed or not).
Shapes ==
    {PlainDefinition(ts, [t \in Tasks |-> IF t \in SmallTasks THEN dep[t] ELSE {}]) :
        ts \in SUBSET SmallTasks, dep \in [SmallTasks -> SUBSET SmallTasks]}

\* The tasks t reaches through depends_on in at most n steps.
RECURSIVE DependsWithin(_, _, _)
DependsWithin(def, t, n) ==
    IF n = 0 THEN {}
    ELSE def.depends_on[t] \cup
         UNION {DependsWithin(def, d, n - 1) : d \in def.depends_on[t] \cap def.tasks}

\* The direct and transitive dependencies of t.
TransitiveDeps(def, t) == DependsWithin(def, t, Cardinality(Tasks))

\* The structural errors of a task list: no task, a dependency on an id that is
\* not in the list, a dependency cycle.
StructuralError(def) ==
    \/ def.tasks = {}
    \/ \E t \in def.tasks : ~(def.depends_on[t] \subseteq def.tasks)
    \/ \E t \in def.tasks : t \in TransitiveDeps(def, t)

\* The ids that come before t in the task list.
Earlier(t) ==
    CASE t = "A" -> {}
      [] t = "B" -> {"A"}
      [] t = "C" -> {"A", "B"}
      [] t = "D" -> {"A", "B", "C"}

\* Task lists with a structural error.
InvalidDefinitions ==
    {d \in Shapes :
        /\ \A t \in Tasks \ d.tasks : d.depends_on[t] = {}
        /\ StructuralError(d)}

\* Structurally valid task lists, listed in a topological order: A, then B,
\* then C, each depending only on earlier ones.
ValidShapes ==
    {d \in Shapes :
        /\ d.tasks \in {{"A"}, {"A", "B"}, {"A", "B", "C"}}
        /\ \A t \in Tasks :
              d.depends_on[t] \subseteq (IF t \in d.tasks THEN Earlier(t) ELSE {})}

\* The inputs a task is compiled with: none, or a value for the key "k".
CompiledInputs ==
    {[NoInputs EXCEPT !["k"] = v] : v \in {Absent, "c"}}

\* The diamond A -> B, A -> C, B -> D, C -> D of plain tasks, in which D has up
\* to MaxRetries retries, with or without a timeout and inputs of its own.
DiamondDefinitions ==
    {[PlainDefinition(Tasks, [t \in Tasks |->
                                 CASE t = "A" -> {}
                                   [] t \in {"B", "C"} -> {"A"}
                                   [] t = "D" -> {"B", "C"}])
         EXCEPT !.max_retries["D"] = mr, !.timeout_seconds["D"] = to,
                !.inputs["D"] = inp] :
        mr \in 0..MaxRetries, to \in {0, TimeoutSeconds}, inp \in CompiledInputs}

\* The valid definitions executed: one task of the list is configured freely
\* (retries up to MaxRetries, with or without a timeout, a TOOL or an AGENT
\* task, with or without inputs of its own), the others are plain.
ValidDefinitions ==
    {[d EXCEPT !.max_retries[t] = mr, !.timeout_seconds[t] = to,
               !.task_type[t] = ty, !.inputs[t] = inp] :
        d \in ValidShapes, t \in SmallTasks, mr \in 0..MaxRetries,
        to \in {0, TimeoutSeconds}, ty \in {"tool", "agent"},
        inp \in CompiledInputs}

Definitions ==
    {d \in ValidDefinitions :
        \A t \in Tasks \ d.tasks :
            /\ d.max_retries[t] = 0 /\ d.timeout_seconds[t] = 0
            /\ d.task_type[t] = "tool" /\ d.inputs[t] = NoInputs}
    \cup InvalidDefinitions

\* The orchestrator right after WorkflowOrchestrator.__init__, about to be
\* handed a definition of `defs`.
InitOrchestrator(defs) ==
    /\ wfdef \in defs
    /\ task_inputs = wfdef.inputs
    /\ dags = << >>
    /\ workflows = << >>
    /\ pc = "idle"
    /\ workflow_inputs = NoInputs
    /\ execution_order = << >>
    /\ batch_idx = 0
    /\ IdleLocals
    /\ runs = 0
    /\ persisted = << >>

\* WorkflowOrchestrator has no hook.
NoHooks ==
    /\ enhanced = FALSE
    /\ _kafka_enabled = FALSE
    /\ _persistence_enabled = FALSE
    /\ hook_errors = {}

\* EnhancedOrchestrator.__init__: with or without a Kafka client, with or
\* without a state manager (Notion sync is not configured).
InitHooks ==
    /\ enhanced = TRUE
    /\ _kafka_enabled \in BOOLEAN
    /\ _persistence_enabled \in BOOLEAN
    /\ hook_errors = {}

\* The HITL store when the module is loaded and an AgentRegistry right after
\* AgentRegistry.__init__: both empty.
InitServices ==
    /\ hitl_store = [r \in {} |-> 0]
    /\ agents = [a \in {} |-> 0]
    /\ out_of_service = {}

\* A WorkflowDAG right after WorkflowDAG.__init__, no call made on it yet.
InitDagObject ==
    /\ dag = EmptyDag
    /\ call = [op |-> "none", from |-> "A", to |-> "A", err |-> "none",
               ret |-> << >>,
                completed |-> {}]

\* The steps of a call of execute_workflow once it is running.
Execution ==
    \/ \E t \in Tasks : StartTask(t)
    \/ \E t \in Tasks, res \in ExecuteResults : ExecuteReturns(t, res)
    \/ \E t \in Tasks : ExecuteRaises(t)
    \/ \E t \in Tasks : TimeoutExpires(t)
    \/ \E t \in Tasks : BackoffEnds(t)
    \/ NextBatch
    \/ Return

\* ------------------------------------------- pause, resume and cancel calls
\* WorkflowDefinition.workflow_id of wfdef, the key of dags and workflows.
WorkflowId == "wf"

\* The ids a caller passes: the id of wfdef and an id no workflow has.
WorkflowIds == {WorkflowId, "other"}

\* workflow_id in self.workflows
Known(ws, id) == id = WorkflowId /\ ws # << >>

\* pause_workflow: self.workflows after the call.
pause_workflow(ws, id) ==
    IF Known(ws, id) THEN <<[ws[1] EXCEPT !.status = "paused"]>> ELSE ws

\* resume_workflow: self.workflows after the call.
resume_workflow(ws, id) ==
    IF Known(ws, id) THEN <<[ws[1] EXCEPT !.status = "running"]>> ELSE ws

\* A cancel_workflow that also drops the tasks in flight from running_tasks.
cancel_workflow_dropping_running(ws, id) ==
    IF Known(ws, id)
    THEN <<[ws[1] EXCEPT !.status = "cancelled", !.running_tasks = {}]>>
    ELSE ws

\* cancel_workflow: self.workflows after the call.
cancel_workflow(ws, id) ==
    IF Known(ws, id) THEN <<[ws[1] EXCEPT !.status = "cancelled"]>> ELSE ws

\* What a pause, resume or cancel call leaves alone.  The call is recorded in
\* `call` with the workflow id in both from and to.
ControlFrame ==
    UNCHANGED <<dag, wfdef, task_inputs, dags, pc, workflow_inputs,
                execution_order, batch_idx, tpc, retry_count, attempt, calls,
                runs, hookConfig, hook_errors, persisted, serviceVars>>

\* orchestrator.pause_workflow(id), at any point between two steps of the
\* event loop.
PauseWorkflow(id) ==
    /\ workflows' = pause_workflow(workflows, id)
    /\ call' = [op |-> "pause_workflow", from |-> id, to |-> id, err |-> "none",
                ret |-> << >>,
                completed |-> {}]
    /\ ControlFrame

\* orchestrator.resume_workflow(id)
ResumeWorkflow(id) ==
    /\ workflows' = resume_workflow(workflows, id)
    /\ call' = [op |-> "resume_workflow", from |-> id, to |-> id, err |-> "none",
                ret |-> << >>,
                completed |-> {}]
    /\ ControlFrame

\* orchestrator.cancel_workflow(id)
CancelWorkflow(id) ==
    /\ workflows' = cancel_workflow(workflows, id)
    /\ call' = [op |-> "cancel_workflow", from |-> id, to |-> id, err |-> "none",
                ret |-> << >>,
                completed |-> {}]
    /\ ControlFrame

\* ------------------------------------------------- calls on a WorkflowDAG
\* dag.add_task(task) for a task with id t and depends_on deps.
AddTask(t, deps) ==
    /\ LET r == add_task(dag, t, deps)
       IN  /\ dag' = r.dag
           /\ call' = [op |-> "add_task", from |-> t, to |-> t, err |-> r.err,
                       ret |-> << >>,
                completed |-> {}]
    /\ UNCHANGED <<orchVars, serviceVars>>

\* dag.add_dependency(from, to)
AddDependency(from, to) ==
    /\ LET r == add_dependency(dag, from, to)
       IN  /\ dag' = r.dag
           /\ call' = [op |-> "add_dependency", from |-> from, to |-> to,
                       err |-> r.err, ret |-> << >>,
                completed |-> {}]
    /\ UNCHANGED <<orchVars, serviceVars>>

\* dag.get_execution_order()
GetExecutionOrder ==
    /\ call' = [op |-> "get_execution_order", from |-> "A", to |-> "A",
                err |-> "none", ret |-> get_execution_order(dag),
                completed |-> {}]
    /\ UNCHANGED <<dag, orchVars, serviceVars>>

\* dag.get_ready_tasks(completed_tasks)
GetReadyTasks(completed_tasks) ==
    /\ call' = [op |-> "get_ready_tasks", from |-> "A", to |-> "A",
                err |-> "none", ret |-> <<get_ready_tasks(dag, completed_tasks)>>,
                completed |-> completed_tasks]
    /\ UNCHANGED <<dag, orchVars, serviceVars>>

\* dag.get_root_tasks()
GetRootTasks ==
    /\ call' = [op |-> "get_root_tasks", from |-> "A", to |-> "A",
                err |-> "none", ret |-> <<get_root_tasks(dag)>>,
                completed |-> {}]
    /\ UNCHANGED <<dag, orchVars, serviceVars>>

\* dag.validate()
Validate ==
    /\ call' = [op |-> "validate", from |-> "A", to |-> "A",
                err |-> validate(dag), ret |-> << >>,
                completed |-> {}]
    /\ UNCHANGED <<dag, orchVars, serviceVars>>

\* --------------------------------------------------- the HITL request store
\* The request ids uuid.uuid4() produces.
RequestIds == {"r1", "r2", "r3"}

\* HITLAction
HITLActions == {"approve", "reject", "modify"}

\* The record create_hitl_request stores (and the agents' quality gates store)
\* under a new request id: pending, no decision.
PendingRequest == [status |-> "pending", decision |-> "None"]

\* What is left unchanged by a call on the HITL store.
HitlFrame == UNCHANGED <<dag, orchVars, agents, out_of_service>>

\* create_hitl_request: a new id from uuid4, never one already in the store.
CreateHitlRequest(id) ==
    /\ id \notin DOMAIN hitl_store
    /\ hitl_store' = [r \in DOMAIN hitl_store \cup {id} |->
                          IF r = id THEN PendingRequest ELSE hitl_store[r]]
    /\ call' = [op |-> "create_hitl_request", from |-> id, to |-> id,
                err |-> "none", ret |-> <<PendingRequest>>, completed |-> {}]
    /\ HitlFrame

\* get_pending_requests: the ids of the requests it returns.
get_pending_requests(store) ==
    {r \in DOMAIN store : store[r].status = "pending"}

\* GET /pending
GetPendingRequests ==
    /\ call' = [op |-> "get_pending_requests", from |-> "r1", to |-> "r1",
                err |-> "none", ret |-> <<get_pending_requests(hitl_store)>>,
                completed |-> {}]
    /\ UNCHANGED hitl_store
    /\ HitlFrame

\* submit_decision without the check that the request is still pending.
submit_decision_unchecked(store, id, action) ==
    IF id \notin DOMAIN store
    THEN [store |-> store, err |-> "404"]
    ELSE [store |-> [store EXCEPT ![id] =
                        [status |-> "resolved", decision |-> action]],
          err |-> "none"]

\* submit_decision: the store after the call and the HTTP error it raises.
submit_decision(store, id, action) ==
    IF id \notin DOMAIN store
    THEN [store |-> store, err |-> "404"]
    ELSE IF store[id].status # "pending"
    THEN [store |-> store, err |-> "400"]
    ELSE [store |-> [store EXCEPT ![id] =
                        [status |-> "resolved", decision |-> action]],
          err |-> "none"]

\* POST /{request_id}/decision
SubmitDecision(id, action) ==
    /\ LET r == submit_decision(hitl_store, id, action)
       IN  /\ hitl_store' = r.store
           /\ call' = [op |-> "submit_decision", from |-> id, to |-> id,
                       err |-> r.err, ret |-> <<action>>, completed |-> {}]
    /\ HitlFrame

\* GET /{request_id}/status
CheckRequestStatus(id) ==
    /\ call' = [op |-> "check_request_status", from |-> id, to |-> id,
                err |-> IF id \in DOMAIN hitl_store THEN "none" ELSE "404",
                ret |-> IF id \in DOMAIN hitl_store
                        THEN <<hitl_store[id]>> ELSE << >>,
                completed |-> {}]
    /\ UNCHANGED hitl_store
    /\ HitlFrame

\* ------------------------------------------------------- the AgentRegistry
\* The agent ids callers use.
AgentIds == {"a1", "a2"}

\* The AgentCapability values agents are registered with and tasks require.
Capabilities == {"llm_analysis"}

\* AgentStatus
AgentStatuses == {"available", "busy", "offline", "error"}

\* AgentInfo.max_concurrent_tasks (its default; register never sets it).
MaxConcurrentTasks == 5

\* The AgentInfo register() builds.
AgentInfo(capabilities) ==
    [capabilities |-> capabilities, status |-> "available", current_tasks |-> 0,
     max_concurrent_tasks |-> MaxConcurrentTasks]

\* AgentInfo.is_available
is_available(agent) ==
    agent.status = "available" /\ agent.current_tasks < agent.max_concurrent_tasks

\* What is left unchanged by a call on the registry.
RegistryFrame == UNCHANGED <<dag, orchVars, hitl_store>>

\* registry.register(id, name, capabilities): a new AgentInfo under the id,
\* replacing the one that was there.
Register(id, capabilities) ==
    /\ agents' = [a \in DOMAIN agents \cup {id} |->
                      IF a = id THEN AgentInfo(capabilities) ELSE agents[a]]
    /\ out_of_service' = out_of_service \ {id}
    /\ call' = [op |-> "register", from |-> id, to |-> id, err |-> "none",
                ret |-> << >>, completed |-> {}]
    /\ RegistryFrame

\* registry.unregister(id)
Unregister(id) ==
    /\ agents' = [a \in DOMAIN agents \ {id} |-> agents[a]]
    /\ out_of_service' = out_of_service \ {id}
    /\ call' = [op |-> "unregister", from |-> id, to |-> id, err |-> "none",
                ret |-> <<id \in DOMAIN agents>>, completed |-> {}]
    /\ RegistryFrame

\* select_best_agent: the agents it may return, those of least load among the
\* available ones that have every required capability (none: it returns None).
select_best_agent(ags, required_capabilities) ==
    LET candidates == {a \in DOMAIN ags :
                          /\ required_capabilities \subseteq ags[a].capabilities
                          /\ is_available(ags[a])}
    IN  {a \in candidates :
            \A b \in candidates : ags[a].current_tasks <= ags[b].current_tasks}

\* registry.select_best_agent(required_capabilities); min() returns the first
\* of the least loaded candidates in the order of the dict.
SelectBestAgent(required_capabilities) ==
    /\ LET best == select_best_agent(agents, required_capabilities)
       IN  \E r \in IF best = {} THEN {<< >>} ELSE {<<a>> : a \in best} :
              call' = [op |-> "select_best_agent", from |-> "a1", to |-> "a1",
                       err |-> "none", ret |-> r, completed |-> {}]
    /\ UNCHANGED <<agents, out_of_service>>
    /\ RegistryFrame

\* registry.update_status(id, status)
UpdateStatus(id, status) ==
    /\ agents' = IF id \in DOMAIN agents
                 THEN [agents EXCEPT ![id].status = status]
                 ELSE agents
    /\ out_of_service' =
          IF id \notin DOMAIN agents THEN out_of_service
          ELSE IF status \in {"offline", "error"} THEN out_of_service \cup {id}
          ELSE IF status = "available" THEN out_of_service \ {id}
          ELSE out_of_service
    /\ call' = [op |-> "update_status", from |-> id, to |-> id, err |-> "none",
                ret |-> <<status>>, completed |-> {}]
    /\ RegistryFrame

\* claim_task: the agents after the call and the value returned.
claim_task(ags, id) ==
    IF id \in DOMAIN ags /\ is_available(ags[id])
    THEN LET n == ags[id].current_tasks + 1
         IN  [agents |-> [ags EXCEPT ![id].current_tasks = n,
                                     ![id].status =
                                         IF n >= ags[id].max_concurrent_tasks
                                         THEN "busy" ELSE @],
              ret |-> TRUE]
    ELSE [agents |-> ags, ret |-> FALSE]

\* registry.claim_task(id)
ClaimTask(id) ==
    /\ LET r == claim_task(agents, id)
       IN  /\ agents' = r.agents
           /\ call' = [op |-> "claim_task", from |-> id, to |-> id,
                       err |-> "none", ret |-> <<r.ret>>, completed |-> {}]
    /\ UNCHANGED out_of_service
    /\ RegistryFrame

\* release_task: the agents after the call.
release_task(ags, id) ==
    IF id \in DOMAIN ags
    THEN LET n == IF ags[id].current_tasks > 0
                  THEN ags[id].current_tasks - 1 ELSE 0
         IN  [ags EXCEPT ![id].current_tasks = n,
                         ![id].status = IF n < ags[id].max_concurrent_tasks
                                        THEN "available" ELSE @]
    ELSE ags

\* registry.release_task(id)
ReleaseTask(id) ==
    /\ agents' = release_task(agents, id)
    /\ call' = [op |-> "release_task", from |-> id, to |-> id, err |-> "none",
                ret |-> << >>, completed |-> {}]
    /\ UNCHANGED out_of_service
    /\ RegistryFrame

\* registry.heartbeat(id): only last_heartbeat, which is not modelled, changes.
Heartbeat(id) ==
    /\ call' = [op |-> "heartbeat", from |-> id, to |-> id, err |-> "none",
                ret |-> << >>, completed |-> {}]
    /\ UNCHANGED <<agents, out_of_service>>
    /\ RegistryFrame

\* ---------------------------------------------------------- specifications
\* Spec: one call of execute_workflow on any definition of Definitions.
Init ==
    /\ InitDagObject
    /\ InitServices
    /\ InitOrchestrator(Definitions)
    /\ NoHooks

Next ==
    \/ \E inputs \in WorkflowInputs : runs = 0 /\ ExecuteWorkflow(inputs)
    \/ Execution

Spec == Init /\ [][Next]_vars

\* SpecRerun: the same compiled definition, of one or two tasks, executed up to
\* MaxRuns times, one call after the other, on one orchestrator.
InitRerun ==
    /\ InitDagObject
    /\ InitServices
    /\ InitOrchestrator({d \in Definitions :
                            ~StructuralError(d) /\ d.tasks \subseteq {"A", "B"}})
    /\ NoHooks

NextRerun ==
    \/ \E inputs \in WorkflowInputs : runs < MaxRuns /\ ExecuteWorkflow(inputs)
    \/ Execution

SpecRerun == InitRerun /\ [][NextRerun]_vars

\* SpecDiamond: one call of execute_workflow on the diamond of four tasks.
InitDiamond ==
    /\ InitDagObject
    /\ InitServices
    /\ InitOrchestrator(DiamondDefinitions)
    /\ NoHooks

NextDiamond ==
    \/ \E inputs \in WorkflowInputs : runs = 0 /\ ExecuteWorkflow(inputs)
    \/ Execution

SpecDiamond == InitDiamond /\ [][NextDiamond]_vars

\* SpecEnhanced: one call of execute_workflow of an EnhancedOrchestrator on a
\* valid definition of one or two tasks.
InitEnhanced ==
    /\ InitDagObject
    /\ InitServices
    /\ InitOrchestrator({d \in Definitions :
                            ~StructuralError(d) /\ d.tasks \subseteq {"A", "B"}})
    /\ InitHooks

NextEnhanced ==
    \/ \E inputs \in WorkflowInputs : runs = 0 /\ ExecuteWorkflow(inputs)
    \/ Execution
    \/ \E t \in Tasks : TaskHooks(t)

SpecEnhanced == InitEnhanced /\ [][NextEnhanced]_vars

\* SpecStatus: one call of execute_workflow on a valid definition of one or two
\* tasks whose executors always return, with a TaskResult of any status.
InitStatus ==
    /\ InitDagObject
    /\ InitServices
    /\ InitOrchestrator({d \in Definitions :
                            ~StructuralError(d) /\ d.tasks \subseteq {"A", "B"}})
    /\ NoHooks

NextStatus ==
    \/ \E inputs \in WorkflowInputs : runs = 0 /\ ExecuteWorkflow(inputs)
    \/ \E t \in Tasks : StartTask(t)
    \/ \E t \in Tasks, res \in ExecuteResults \cup OtherResults :
          ExecuteReturnsAny(t, res)
    \/ \E t \in Tasks : BackoffEnds(t)
    \/ NextBatch
    \/ Return

SpecStatus == InitStatus /\ [][NextStatus]_vars

\* SpecControl: one call of execute_workflow, without inputs, on a valid
\* definition of one or two tasks that have no inputs of their own, with
\* pause_workflow, resume_workflow and cancel_workflow calls made before,
\* during and after it.
InitControl ==
    /\ InitDagObject
    /\ InitServices
    /\ InitOrchestrator({d \in Definitions :
                            /\ ~StructuralError(d)
                            /\ d.tasks \subseteq {"A", "B"}
                            /\ \A t \in Tasks : d.inputs[t] = NoInputs})
    /\ NoHooks

NextControl ==
    \/ runs = 0 /\ ExecuteWorkflow(NoInputs)
    \/ Execution
    \/ \E id \in WorkflowIds : PauseWorkflow(id)
    \/ \E id \in WorkflowIds : ResumeWorkflow(id)
    \/ \E id \in WorkflowIds : CancelWorkflow(id)

SpecControl == InitControl /\ [][NextControl]_vars

\* SpecPersist: one call of execute_workflow, without inputs, of an
\* EnhancedOrchestrator that has a state manager and no Kafka client, on a
\* valid definition of one or two tasks that have no inputs of their own.
InitPersist ==
    /\ InitDagObject
    /\ InitServices
    /\ InitOrchestrator({d \in Definitions :
                            /\ ~StructuralError(d)
                            /\ d.tasks \subseteq {"A", "B"}
                            /\ \A t \in Tasks : d.inputs[t] = NoInputs})
    /\ enhanced = TRUE
    /\ _kafka_enabled = FALSE
    /\ _persistence_enabled = TRUE
    /\ hook_errors = {}

NextPersist ==
    \/ runs = 0 /\ ExecuteWorkflow(NoInputs)
    \/ Execution
    \/ \E t \in Tasks : TaskHooks(t)

SpecPersist == InitPersist /\ [][NextPersist]_vars

\* SpecHitl: any sequence of calls on the HITL request store.
InitHitl ==
    /\ InitDagObject
    /\ InitServices
    /\ InitOrchestrator({PlainDefinition({}, [t \in Tasks |-> {}])})
    /\ NoHooks

NextHitl ==
    \/ \E id \in RequestIds : CreateHitlRequest(id)
    \/ GetPendingRequests
    \/ \E id \in RequestIds, action \in HITLActions : SubmitDecision(id, action)
    \/ \E id \in RequestIds : CheckRequestStatus(id)

SpecHitl == InitHitl /\ [][NextHitl]_vars

\* SpecRegistry: any sequence of calls on one AgentRegistry.
InitRegistry ==
    /\ InitDagObject
    /\ InitServices
    /\ InitOrchestrator({PlainDefinition({}, [t \in Tasks |-> {}])})
    /\ NoHooks

NextRegistry ==
    \/ \E id \in AgentIds, caps \in SUBSET Capabilities : Register(id, caps)
    \/ \E id \in AgentIds : Unregister(id)
    \/ \E required \in SUBSET Capabilities : SelectBestAgent(required)
    \/ \E id \in AgentIds, status \in AgentStatuses : UpdateStatus(id, status)
    \/ \E id \in AgentIds : ClaimTask(id)
    \/ \E id \in AgentIds : ReleaseTask(id)
    \/ \E id \in AgentIds : Heartbeat(id)

SpecRegistry == InitRegistry /\ [][NextRegistry]_vars

\* SpecDag: any sequence of calls on one WorkflowDAG.
InitDag ==
    /\ InitDagObject
    /\ InitServices
    /\ InitOrchestrator({PlainDefinition({}, [t \in Tasks |-> {}])})
    /\ NoHooks

NextDag ==
    \/ \E t \in SmallTasks, deps \in {x \in SUBSET SmallTasks : Cardinality(x) <= 1} :
          AddTask(t, deps)
    \/ \E from \in SmallTasks, to \in SmallTasks : AddDependency(from, to)
    \/ GetExecutionOrder
    \/ \E completed_tasks \in SUBSET SmallTasks : GetReadyTasks(completed_tasks)
    \/ GetRootTasks
    \/ Validate

SpecDag == InitDag /\ [][NextDag]_vars

\* =================================================================== claims
\* Whether v is reached from u along at most n edges (at least one).
RECURSIVE ReachesWithin(_, _, _, _)
ReachesWithin(edges, u, v, n) ==
    IF n = 0 THEN FALSE
    ELSE \E e \in edges :
            e[1] = u /\ (e[2] = v \/ ReachesWithin(edges, e[2], v, n - 1))

Reaches(edges, u, v) == ReachesWithin(edges, u, v, Cardinality(Tasks))

\* No task of the graph reaches itself.
Acyclic(d) == \A t \in d.tasks : ~Reaches(d.edges, t, t)

\* The batches (1-based) of `order` that hold t.
BatchesOf(order, t) == {i \in 1..Len(order) : t \in order[i]}

\* C4: on an acyclic graph get_execution_order() returns batches in which every
\* registered task id is in exactly one batch and every edge goes from a batch
\* to a strictly later one; every task after the first batch has a predecessor
\* in the batch just before its own (so a chain of n tasks gives n singleton
\* batches).
C4_ExecutionOrderIsTopological ==
    (call.op = "get_execution_order" /\ Acyclic(dag)) =>
        /\ \A i \in 1..Len(call.ret) : call.ret[i] # {} /\ call.ret[i] \subseteq dag.tasks
        /\ \A t \in dag.tasks : Cardinality(BatchesOf(call.ret, t)) = 1
        /\ \A e \in dag.edges :
              \A i \in BatchesOf(call.ret, e[1]), j \in BatchesOf(call.ret, e[2]) : i < j
        /\ \A t \in dag.tasks : \A j \in BatchesOf(call.ret, t) :
              j > 1 => \E u \in call.ret[j - 1] : <<u, t>> \in dag.edges

\* C4 witness: the order of a chain of three tasks has been computed.
C4_Witness ==
    /\ call.op = "get_execution_order"
    /\ dag.tasks = SmallTasks
    /\ Len(call.ret) = 3

\* C10: add_dependency(from, to) on two tasks of the graph raises
\* CyclicDependencyError exactly when the edge would close a cycle (from = to
\* included), a call that raises it leaves tasks and edges as they were, and the
\* graph is acyclic after any sequence of add_task/add_dependency calls.
C10_CyclicEdgeRejectedUnchanged ==
    /\ [](Acyclic(dag))
    /\ [][(call'.op = "add_dependency" /\ {call'.from, call'.to} \subseteq dag.tasks) =>
            /\ (call'.err = "CyclicDependencyError") <=>
                   (call'.from = call'.to \/ Reaches(dag.edges, call'.to, call'.from))
            /\ (call'.err = "CyclicDependencyError") => dag' = dag]_vars

\* C10 witness: an edge closing a cycle of two distinct tasks was rejected.
C10_Witness ==
    /\ call.op = "add_dependency"
    /\ call.err = "CyclicDependencyError"
    /\ call.from # call.to
    /\ <<call.to, call.from>> \in dag.edges

\* C11: validate() returns True exactly when the graph has a task, has no cycle
\* and every id in a task's depends_on is a task of the graph; on a graph with
\* no task it raises WorkflowDAGError, and on a graph with a task whose
\* depends_on names an id that is not in the graph it raises TaskNotFoundError.
C11_ValidateExactlyWhenWellFormed ==
    call.op = "validate" =>
        LET dangling == \E t \in dag.tasks : ~(dag.depends[t] \subseteq dag.tasks)
        IN  /\ (call.err = "none") <=>
                   (dag.tasks # {} /\ Acyclic(dag) /\ ~dangling)
            /\ dag.tasks = {} => call.err = "WorkflowDAGError"
            /\ dangling => call.err = "TaskNotFoundError"

\* C11 witness: validate() raised TaskNotFoundError on a graph of two tasks and
\* one edge in which a task depends on an id that was never added.
C11_Witness ==
    /\ call.op = "validate"
    /\ call.err = "TaskNotFoundError"
    /\ Cardinality(dag.tasks) = 2
    /\ dag.edges # {}

\* The TaskResult of t in the registered WorkflowState.
Result(t) == State.task_results[t]

\* A call of execute_workflow is running or has returned its WorkflowState.
Executing == pc \in {"running", "returned"}

\* C1: if X is terminally FAILED and Y depends on X, directly or transitively,
\* then Y's executor is never invoked and, once execute_workflow has returned,
\* Y's TaskResult is still PENDING and the workflow status is "failed".
C1_DependentsOfFailedNeverRun ==
    Executing =>
        \A x \in wfdef.tasks, y \in wfdef.tasks :
            (x \in State.failed_tasks /\ x \in TransitiveDeps(wfdef, y)) =>
                /\ calls[y] = 0
                /\ tpc[y] = "ready"
                /\ pc = "returned" =>
                      (Result(y).status = "PENDING" /\ State.status = "failed")

\* C2: when execute_workflow has returned, a task with max_retries = N whose
\* executor failed at every invocation (its result is FAILED, and neither a
\* timeout nor a failed dispatch made it so) had execute() invoked exactly N+1
\* times, and its TaskResult has retry_count = N.
C2_ExactlyNPlusOneAttempts ==
    pc = "returned" =>
        \A t \in wfdef.tasks :
            (/\ wfdef.task_type[t] = "tool"
             /\ Result(t).status = "FAILED"
             /\ Result(t).error # "timeout") =>
                /\ calls[t] = wfdef.max_retries[t] + 1
                /\ Result(t).retry_count = wfdef.max_retries[t]

\* A task has reached a terminal-for-scheduling state: its coroutine has ended
\* with a SUCCESS or WAITING_HUMAN result, or with a FAILED one and the task in
\* the failed set.
TerminalForScheduling(t) ==
    /\ tpc[t] = "done"
    /\ \/ Result(t).status \in {"SUCCESS", "WAITING_HUMAN"}
       \/ Result(t).status = "FAILED" /\ t \in State.failed_tasks

\* C3: as long as a task of some batch has not reached SUCCESS, terminal FAILED
\* or WAITING_HUMAN, no task of a later batch has been started and no
\* executor call has been made for it.
C3_BatchBarrier ==
    Executing =>
        \A i \in 1..Len(execution_order), j \in 1..Len(execution_order) :
            i < j =>
                \A u \in execution_order[i], t \in execution_order[j] :
                    (tpc[t] # "ready" \/ calls[t] > 0) => TerminalForScheduling(u)

\* C3 witness: two tasks of the first batch have ended, one of them after a
\* retry, and a task of the second batch is executing.
C3_Witness ==
    /\ pc = "running"
    /\ Len(execution_order) >= 2
    /\ Cardinality(execution_order[1]) = 2
    /\ \E u \in execution_order[1] : Result(u).retry_count > 0
    /\ \E t \in execution_order[2] : tpc[t] = "exec"

\* C5: the inputs a task is dispatched with are the merge of the current call's
\* workflow inputs, the task's compiled inputs and the current call's
\* dependency outputs, whatever earlier calls on the same definition resolved.
C5_NoLeakBetweenRuns ==
    Executing =>
        \A t \in wfdef.tasks :
            tpc[t] = "exec" =>
                task_inputs[t] =
                    _resolve_task_inputs(t, State,
                        Merge(workflow_inputs, wfdef.inputs[t]))

\* C6: a task is terminally FAILED with a timeout error only once its retries
\* are exhausted: an attempt that timed out while retry budget remained is
\* followed by another attempt.
C6_TimeoutConsumesRetry ==
    Executing =>
        \A t \in wfdef.tasks :
            (/\ tpc[t] = "done"
             /\ Result(t).status = "FAILED"
             /\ Result(t).error = "timeout") =>
                Result(t).retry_count = wfdef.max_retries[t]

\* The step is one in which an attempt on t fails: execute() returns FAILED,
\* raises with no attempt left in run_with_metrics, or overruns the timeout.
AttemptFails(t) ==
    \/ \E res \in ExecuteResults : res.status = "FAILED" /\ ExecuteReturns(t, res)
    \/ ExecuteRaises(t) /\ ~RaiseRetries(t)
    \/ TimeoutExpires(t)

\* C7: on a structurally valid definition neither execute_workflow nor a task
\* coroutine ends with an exception; a failed attempt leaves a FAILED
\* TaskResult and either a retry or the task in the failed set; a task that
\* cannot be dispatched ends FAILED; and every ended task is in the failed set
\* exactly when its TaskResult is FAILED, whatever made it fail.
C7_TaskFailuresBecomeResults ==
    /\ [](~StructuralError(wfdef) =>
            /\ pc # "raised"
            /\ \A t \in wfdef.tasks :
                  /\ tpc[t] # "raised"
                  /\ tpc[t] = "done" =>
                        /\ (t \in State.failed_tasks) <=> (Result(t).status = "FAILED")
                        /\ wfdef.task_type[t] = "agent" => Result(t).status = "FAILED"
                  /\ pc = "returned" =>
                        /\ tpc[t] = "done"
                        /\ Result(t).status \in {"SUCCESS", "WAITING_HUMAN", "FAILED"})
    /\ [][\A t \in wfdef.tasks :
            AttemptFails(t) =>
                /\ workflows'[1].task_results[t].status = "FAILED"
                /\ \/ tpc'[t] = "sleep" /\ retry_count'[t] = retry_count[t] + 1
                   \/ tpc'[t] = "done" /\ t \in workflows'[1].failed_tasks]_vars

\* C7 witness: execute_workflow has returned a state in which a task that could
\* not be dispatched and a task whose executor failed are both FAILED.
C7_Witness ==
    /\ pc = "returned"
    /\ \E t \in wfdef.tasks, u \in wfdef.tasks :
          /\ wfdef.task_type[t] = "agent"
          /\ t \in State.failed_tasks
          /\ wfdef.task_type[u] = "tool"
          /\ u \in State.failed_tasks

\* C8: on a task list with a structural error execute_workflow raises, and the
\* call that raises invokes no executor and leaves the orchestrator's
\* registered DAGs and workflow states as they were before it.
C8_StructuralErrorNoSideEffect ==
    /\ [](StructuralError(wfdef) => ~Executing)
    /\ [][pc' = "raised" =>
            /\ dags' = dags
            /\ workflows' = workflows
            /\ calls' = calls]_vars

\* C9: the step in which execute_workflow returns sets the status to
\* "completed" when the failed set is empty and to "failed" otherwise and sets
\* completed_at; when every task's result is SUCCESS the status is "completed"
\* and the completed set holds every task of the workflow.
C9_FinalStatus ==
    [][(pc = "running" /\ pc' = "returned") =>
          LET s == workflows'[1]
          IN  /\ s.status = (IF s.failed_tasks = {} THEN "completed" ELSE "failed")
              /\ s.completed_at
              /\ (\A t \in wfdef.tasks : s.task_results[t].status = "SUCCESS") =>
                    (s.status = "completed" /\ s.completed_tasks = wfdef.tasks)]_vars

\* C9 witness: execute_workflow has returned "failed" for a workflow of three
\* tasks of which one failed and two succeeded.
C9_Witness ==
    /\ pc = "returned"
    /\ wfdef.tasks = SmallTasks
    /\ State.status = "failed"
    /\ Cardinality(State.failed_tasks) = 1
    /\ Cardinality(State.completed_tasks) = 2
    /\ State.completed_at

\* C12: in a workflow with a single task, the step in which the task's executor
\* returns WAITING_HUMAN leaves a TaskResult with status WAITING_HUMAN and ends
\* the task; from then on the task is in the completed set and not in the
\* failed set, and execute_workflow returns with status "completed".
C12_SoleHumanTaskCompletes ==
    /\ [](\A t \in wfdef.tasks :
            (Executing /\ wfdef.tasks = {t} /\ Result(t).status = "WAITING_HUMAN") =>
                /\ t \in State.completed_tasks
                /\ t \notin State.failed_tasks
                /\ pc = "returned" => State.status = "completed")
    /\ [][\A t \in wfdef.tasks :
            (/\ wfdef.tasks = {t}
             /\ \E res \in ExecuteResults :
                   res.status = "WAITING_HUMAN" /\ ExecuteReturns(t, res)) =>
                /\ workflows'[1].task_results[t].status = "WAITING_HUMAN"
                /\ tpc'[t] = "done"]_vars

\* C12 witness: execute_workflow has returned "completed" for a workflow whose
\* only task is WAITING_HUMAN.
C12_Witness ==
    /\ pc = "returned"
    /\ Cardinality(wfdef.tasks) = 1
    /\ \A t \in wfdef.tasks : Result(t).status = "WAITING_HUMAN"
    /\ State.status = "completed"
    /\ State.completed_tasks = wfdef.tasks

\* C13: execute_workflow stops at a human gate: once a task has returned
\* WAITING_HUMAN, no task of a later batch is started, neither before
\* execute_workflow returns nor by the time it has returned.
C13_StopsAtHumanGate ==
    Executing =>
        \A i \in 1..Len(execution_order), j \in 1..Len(execution_order) :
            i < j =>
                \A x \in execution_order[i], y \in execution_order[j] :
                    Result(x).status = "WAITING_HUMAN" =>
                        (tpc[y] = "ready" /\ calls[y] = 0)

\* C14: on the diamond A -> B, A -> C, B -> D, C -> D the batches are [A],
\* {B, C}, [D], no task is started before the tasks of the batch before its
\* own have ended, and when A, B and C have succeeded the inputs D is dispatched
\* with hold B_output and C_output, equal to the outputs of B and of C.
C14_DiamondBatchesAndInputs ==
    Executing =>
        /\ execution_order = <<{"A"}, {"B", "C"}, {"D"}>>
        /\ \A t \in {"B", "C"} : tpc[t] # "ready" => tpc["A"] = "done"
        /\ tpc["D"] # "ready" => (tpc["B"] = "done" /\ tpc["C"] = "done")
        /\ (/\ tpc["D"] = "exec"
            /\ \A t \in {"A", "B", "C"} : Result(t).status = "SUCCESS") =>
                \A t \in {"B", "C"} :
                    /\ task_inputs["D"][OutputKey(t)] # Absent
                    /\ task_inputs["D"][OutputKey(t)] = Result(t).outputs

\* C14 witness: D is executing after A, B and C succeeded, B and C with
\* different outputs.
C14_Witness ==
    /\ pc = "running"
    /\ tpc["D"] = "exec"
    /\ \A t \in {"A", "B", "C"} : Result(t).status = "SUCCESS"
    /\ Result("B").outputs = "out"
    /\ Result("C").outputs = "{}"
    /\ batch_idx = 3

\* C15: in EnhancedOrchestrator the step in which the hooks of a task's branch
\* are called leaves the WorkflowState (every TaskResult, the completed and
\* failed sets, the status) as it was, whether or not a hook raises; a task is
\* never in both the completed and the failed set; and execute_workflow does
\* not raise on a structurally valid definition.
C15_HookErrorsIsolated ==
    /\ [](enhanced =>
            /\ pc # "raised"
            /\ Executing => State.completed_tasks \cap State.failed_tasks = {})
    /\ [][\A t \in wfdef.tasks :
            (enhanced /\ tpc[t] = "hooks" /\ tpc'[t] = "done") =>
                workflows' = workflows]_vars

C17_TaskRecordNeverMutated ==
    \A t \in wfdef.tasks : task_inputs[t] = wfdef.inputs[t]

\* The flat merge of the workflow-level inputs, the inputs t was compiled with
\* and, for every direct dependency d of t in the completed set, the key
\* d_output mapped to d's outputs; later entries override earlier ones.
FlatMerge(t) ==
    [k \in Keys |->
        IF \E d \in wfdef.depends_on[t] \cap State.completed_tasks : k = OutputKey(d)
        THEN LET d == CHOOSE x \in wfdef.depends_on[t] : k = OutputKey(x)
             IN  Result(d).outputs
        ELSE Merge(workflow_inputs, wfdef.inputs[t])[k]]

\* C18: whenever a task is dispatched (its executor is running), the inputs it
\* was dispatched with are the flat merge of the workflow-level inputs, its own
\* inputs and d_output for every direct dependency d in the completed set.
C18_ResolvedInputsAreFlatMerge ==
    Executing =>
        \A t \in wfdef.tasks :
            tpc[t] = "exec" => task_inputs[t] = FlatMerge(t)

\* Position of a TaskStatus along PENDING -> RUNNING -> terminal.
StatusRank(status) ==
    CASE status = "PENDING" -> 0
      [] status = "RUNNING" -> 1
      [] OTHER -> 2

\* C19: the status read in task_results is FAILED only for a task whose
\* coroutine has ended; a status that is SUCCESS, FAILED, WAITING_HUMAN or
\* CANCELLED never changes again, and no status moves back along
\* PENDING -> RUNNING -> {SUCCESS, FAILED, WAITING_HUMAN, CANCELLED}.
C19_RetryLoopInvisible ==
    /\ [](Executing =>
            \A t \in wfdef.tasks : Result(t).status = "FAILED" => tpc[t] = "done")
    /\ [][pc = "running" =>
            \A t \in wfdef.tasks :
                LET old == Result(t).status
                    new == workflows'[1].task_results[t].status
                IN  /\ StatusRank(old) <= StatusRank(new)
                    /\ StatusRank(old) = 2 => new = old]_vars

\* C20: at every point of an execution a task is in the failed set exactly
\* when its TaskResult is FAILED, and in the completed set exactly when its
\* TaskResult is SUCCESS or WAITING_HUMAN.
C20_SetsDerivedFromResults ==
    Executing =>
        \A t \in wfdef.tasks :
            /\ (t \in State.failed_tasks) <=> (Result(t).status = "FAILED")
            /\ (t \in State.completed_tasks) <=>
                   (Result(t).status \in {"SUCCESS", "WAITING_HUMAN"})

\* C21: in a call of execute_workflow whose executor calls all return, whatever
\* the status of the TaskResult they return, a task makes at most
\* max_retries + 1 attempts (one execute() call each).
C21_AttemptsBounded ==
    Executing =>
        \A t \in wfdef.tasks : calls[t] <= wfdef.max_retries[t] + 1

\* C22: during and after a call of execute_workflow, of either orchestrator, no
\* task is in completed_tasks and failed_tasks at once, no task of either set
\* is in running_tasks, and running_tasks is empty when the call has returned.
C22_SetsDisjoint ==
    Executing =>
        /\ State.completed_tasks \cap State.failed_tasks = {}
        /\ (State.completed_tasks \cup State.failed_tasks) \cap State.running_tasks = {}
        /\ pc = "returned" => State.running_tasks = {}

\* The workflow statuses WorkflowState.is_complete counts as terminal.
TerminalWorkflowStatus == {"completed", "failed", "cancelled"}

\* C23: once the status of the WorkflowState is completed, failed or cancelled,
\* no step of the execute_workflow call still running and no pause, resume or
\* cancel call changes it.
C23_TerminalStatusAbsorbing ==
    [][(Executing /\ State.status \in TerminalWorkflowStatus) =>
          (workflows' # << >> /\ workflows'[1].status = State.status)]_vars

\* The status a pause, resume or cancel call sets.
StatusSetBy(op) ==
    CASE op = "pause_workflow" -> "paused"
      [] op = "resume_workflow" -> "running"
      [] op = "cancel_workflow" -> "cancelled"

\* C27: a pause_workflow, resume_workflow or cancel_workflow call on the id of
\* a registered WorkflowState changes the status field of that state and
\* nothing else (its results and its completed, running and failed sets, the
\* tasks in flight and the position of execute_workflow are as before); on an
\* id no workflow has it changes nothing.
C27_ControlChangesOnlyStatus ==
    [][\A id \in WorkflowIds :
          (PauseWorkflow(id) \/ ResumeWorkflow(id) \/ CancelWorkflow(id)) =>
              /\ UNCHANGED <<wfdef, task_inputs, dags, pc, workflow_inputs,
                             execution_order, batch_idx, tpc, retry_count,
                             attempt, calls, runs>>
              /\ IF id = WorkflowId /\ workflows # << >>
                 THEN workflows' =
                          <<[State EXCEPT !.status = StatusSetBy(call'.op)]>>
                 ELSE workflows' = workflows]_vars

\* C27 witness: cancel_workflow was called on the running workflow while a task
\* was in flight, and the task is still in running_tasks, executing.
C27_Witness ==
    /\ pc = "running"
    /\ call.op = "cancel_workflow"
    /\ call.from = WorkflowId
    /\ State.status = "cancelled"
    /\ \E t \in State.running_tasks : tpc[t] = "exec"

\* The tasks of the batches _execute_dag has finished gathering.
FinishedBatches ==
    UNION {execution_order[i] :
              i \in 1..(IF pc = "returned" THEN Len(execution_order)
                        ELSE batch_idx - 1)}

RECURSIVE ReadyRounds(_, _)
ReadyRounds(d, completed) ==
    LET ready == get_ready_tasks(d, completed)
    IN  IF ready = {} THEN << >>
        ELSE <<ready>> \o ReadyRounds(d, completed \cup ready)

\* C24: get_ready_tasks(completed) returns exactly the tasks not in completed
\* whose direct predecessors are all in completed; the rounds it gives from
\* completed = {} are the batches of get_execution_order(), and the first round
\* is get_root_tasks().
C24_ReadyTasksAreIncrementalBatches ==
    /\ call.op = "get_ready_tasks" =>
           call.ret[1] = {t \in dag.tasks :
                            /\ t \notin call.completed
                            /\ \A e \in dag.edges :
                                  e[2] = t => e[1] \in call.completed}
    /\ call.op = "get_execution_order" => call.ret = ReadyRounds(dag, {})
    /\ call.op = "get_root_tasks" => call.ret[1] = get_ready_tasks(dag, {})

\* C24 witness: on the graph A -> B, A -> C, B -> C the batches were computed,
\* three of them, which a scheduler that asks for one completed dependency
\* only would not produce.
C24_Witness ==
    /\ call.op = "get_execution_order"
    /\ dag.edges = {<<"A", "B">>, <<"A", "C">>, <<"B", "C">>}
    /\ call.ret = <<{"A"}, {"B"}, {"C"}>>

\* C25 as stated: add_task with an id already in the graph fails with
\* DuplicateTaskError, add_dependency with an absent id fails with
\* TaskNotFoundError, and both leave the graph as it was.
C25_RejectedMutationDuplicateTaskError ==
    [][/\ (call'.op = "add_task" /\ call'.from \in dag.tasks) =>
              (call'.err = "DuplicateTaskError" /\ dag' = dag)
       /\ (call'.op = "add_dependency"
              /\ ~({call'.from, call'.to} \subseteq dag.tasks)) =>
              (call'.err = "TaskNotFoundError" /\ dag' = dag)]_vars

\* C25 amended: add_task with an id already in the graph raises ValueError,
\* add_dependency with an absent from- or to-id raises TaskNotFoundError, and
\* after either the tasks, their definitions and the edges of the graph are
\* those before the call.
C25_RejectedMutationChangesNothing ==
    [][/\ (call'.op = "add_task" /\ call'.from \in dag.tasks) =>
              (call'.err = "ValueError" /\ dag' = dag)
       /\ (call'.op = "add_dependency"
              /\ ~({call'.from, call'.to} \subseteq dag.tasks)) =>
              (call'.err = "TaskNotFoundError" /\ dag' = dag)]_vars

\* C25 witness: add_task was rejected for an id of a graph that has an edge and
\* whose task under that id declares a dependency.
C25_Witness ==
    /\ call.op = "add_task"
    /\ call.err = "ValueError"
    /\ dag.depends[call.from] # {}
    /\ dag.edges # {}

C29_DecidedAtMostOnce ==
    /\ [][\A r \in DOMAIN hitl_store :
             /\ r \in DOMAIN hitl_store'
             /\ hitl_store[r].status = "resolved" => hitl_store'[r] = hitl_store[r]
             /\ hitl_store[r].status = "pending" =>
                    hitl_store'[r].status \in {"pending", "resolved"}]_vars
    /\ [][call'.op = "submit_decision" =>
             /\ call'.from \notin DOMAIN hitl_store =>
                    (call'.err = "404" /\ hitl_store' = hitl_store)
             /\ (call'.from \in DOMAIN hitl_store
                    /\ hitl_store[call'.from].status = "resolved") =>
                    (call'.err = "400" /\ hitl_store' = hitl_store)]_vars
    /\ [](call.op = "get_pending_requests" =>
             \A r \in call.ret[1] : hitl_store[r].status = "pending")

\* C29 witness: a second decision, different from the one stored, was submitted
\* for a resolved request and rejected.
C29_Witness ==
    /\ call.op = "submit_decision"
    /\ call.err = "400"
    /\ hitl_store[call.from].status = "resolved"
    /\ hitl_store[call.from].decision # call.ret[1]

\* C30: an agent that update_status has set OFFLINE or ERROR is not returned by
\* select_best_agent and claim_task does not succeed for it until update_status
\* sets it AVAILABLE, whatever claim_task, release_task and heartbeat calls are
\* made in between; and current_tasks always stays within
\* 0..max_concurrent_tasks.
C30_OutOfServiceNeverClaimed ==
    /\ [](\A a \in DOMAIN agents :
             /\ 0 <= agents[a].current_tasks
             /\ agents[a].current_tasks <= agents[a].max_concurrent_tasks)
    /\ [][(call'.op = "claim_task" /\ call'.from \in out_of_service) =>
             call'.ret = <<FALSE>>]_vars
    /\ [][call'.op = "select_best_agent" =>
             \A a \in out_of_service : call'.ret # <<a>>]_vars

====
